---- MODULE Spec2Model ----
(***************************************************************************)
(* Model of the golaunch clients.                                          *)
(*                                                                         *)
(*   launch.go    the BLE client: Connect, Disconnect, Move, the gatt      *)
(*                event handlers and the writeFromBuffer transmission      *)
(*                loop.                                                    *)
(*   buttplug.go  the Buttplug client: Connect, Disconnect, Move, the      *)
(*                disconnect monitor and its writeFromBuffer loop.         *)
(*                                                                         *)
(* Goroutines are processes with a program counter; Go channels are        *)
(* modelled with their capacity.  A goroutine that is blocked in a select  *)
(* with no ready case is at pc "blocked": a sender that finds such a       *)
(* receiver hands the value over directly, as the Go runtime does.         *)
(***************************************************************************)
EXTENDS Integers, Sequences, FiniteSets, TLC

\* ------------------------------------------------------------------ bounds
\* Connect calls made on the BLE client (one gatt device per call).
MaxConnects == 2
\* Move calls made on the BLE client.
MaxMoves == 2
\* Sessions (successful Connect calls that select a device) of the Buttplug
\* client; each selects a new device object.
MaxSessions == 2
\* Buttplug clients made by golibbuttplug.NewClient.
MaxClients == 2
\* Move calls made on the Buttplug client.
MaxBPMoves == 1
\* Move calls made on a client with no session: one more than wbuffer holds.
MaxCalls == 11

\* ------------------------------------------------------- program constants
\* launch.go:51, capacity of wbuffer.
writeBufferSize == 10
\* launch.go:49, time.Millisecond * 100, in clock steps of 50 ms.
threshold == 2

Att == 1..MaxConnects

\* Arguments of Move used in the specifications of the two clients.
MoveArgs == {<<-10, 5>>, <<150, 150>>}
BPMoveArgs == {<<50, 50>>}
\* Arguments of Move in the specification that fills the write buffer.
FillArgs == {<<50, 50>>}
\* Arguments of Move in the specification of Move alone: below, at, inside and
\* above the limits, and a position beyond the range of a byte.
Positions == {-1, 0, 50, 99, 100, 306}
Speeds == {-1, 19, 20, 99, 100}

Min(a, b) == IF a < b THEN a ELSE b
Max(a, b) == IF a > b THEN a ELSE b

\* byte(x) of an int: the low eight bits.
byte(x) == x % 256

VARIABLES
  \* ---- launch struct (launch.go:91-105); 0 stands for nil
  mutex,           \* "free", or who holds it: "connect", "mode", "loop"
  l_p,             \* l.p: the gatt device (Connect call) the peripheral object is of
  l_cmd,           \* l.cmd: the device that discovered it
  l_mode,          \* l.mode
  cmdDiscovered,   \* chan bool, capacity 1: number of buffered values
  modeDiscovered,  \* chan bool, capacity 1
  stopWriting,     \* chan bool, capacity 1
  wbuffer,         \* chan [2]byte, capacity writeBufferSize
  limiter,         \* time.Tick(threshold): channel of capacity 1
  \* ---- the transport
  periph,          \* 0: the peripheral advertises; k: it is connected to device k
  dev,             \* dev[k]: the gatt device made by Connect call k
  \* ---- goroutines
  connectPc,       \* the caller inside Connect
  connectK,        \* number of Connect calls made so far (the current one)
  result,          \* result[k]: what Connect call k returned
  G,               \* G[k]: the discovery-wait goroutine of call k
  setupComplete,   \* setupComplete[k]: the channel of call k (capacity 1)
  M,               \* M[k]: the goroutine of writeMode in call k
  errChan,         \* errChan[k]: "empty", "nil" or "err"
  loop,            \* loop[k]: the writeFromBuffer goroutine started by call k
  \* ---- time
  phase,           \* clock steps since the last tick of the limiter
  sinceWrite,      \* clock steps since the last command write (saturates)
  \* ---- history
  submitted,       \* arguments of the Move calls, in order
  enqueued,        \* commands placed on wbuffer, in order
  written,         \* commands handed to WriteCharacteristic by the loops
  stopPlaced,      \* stopPlaced[k]: onDisconnected of device k placed a stop
  stopOf,          \* the device whose onDisconnected placed the buffered stop, or 0
  calledConnected, \* calledConnected[k]: call k was made while Connected
  moving,          \* the command a caller inside Move is sending, or <<>>
  leftover,        \* [n, by]: the n commands at the head of wbuffer were in it
                   \* when the loop of call "by" returned, no later loop started
  modeOk           \* modeOk[k]: a mode write to the peripheral of device k
                   \* has returned nil

bleVars == <<mutex, l_p, l_cmd, l_mode, cmdDiscovered, modeDiscovered, stopWriting,
             wbuffer, limiter, periph, dev, connectPc, connectK, result, G,
             setupComplete, M, errChan, loop, phase, sinceWrite, submitted,
             enqueued, written, stopPlaced, stopOf, calledConnected, moving,
             leftover, modeOk>>

launchVars == <<mutex, l_p, l_cmd, l_mode, cmdDiscovered, modeDiscovered,
                stopWriting, wbuffer, limiter>>
chanVars == <<cmdDiscovered, modeDiscovered, stopWriting, wbuffer, limiter>>
refVars == <<l_p, l_cmd, l_mode>>
connectVars == <<connectPc, connectK, result, calledConnected>>
taskVars == <<G, setupComplete, M, errChan>>
timeVars == <<phase, sinceWrite>>
moveVars == <<submitted, enqueued, moving>>
writeVars == <<written, leftover, modeOk>>

Sess == 1..MaxSessions
Clients == 1..MaxClients

\* The state of the Buttplug client.
VARIABLES
  \* ---- buttplugLaunch struct (buttplug.go:14-28); 0 stands for nil
  bp_client,         \* l.client: a client made by NewClient
  bp_device,         \* l.device: a device of a client
  bp_wbuffer,        \* chan [2]int, capacity writeBufferSize
  bp_limiter,        \* time.Tick(threshold): channel of capacity 1
  bp_disconnectFunc, \* TRUE when a callback is registered
  \* ---- golibbuttplug
  bp_clients,        \* clients made so far
  bp_devices,        \* device objects seen so far
  clientClosed,      \* clientClosed[c]: client c's Disconnected() is closed
  deviceGone,        \* deviceGone[d]: device d's Disconnected() is closed
  \* ---- goroutines
  bp_connectPc,      \* the caller inside Connect
  bp_sessions,       \* sessions established so far
  mon,               \* mon[s]: the disconnect monitor of session s
  bp_loop,           \* bp_loop[s]: the writeFromBuffer goroutine of session s
  panicked,          \* "no", or the goroutine that dereferenced nil
  \* ---- history
  bp_submitted,      \* arguments of the Move calls, in order
  bp_enqueued,       \* commands placed on wbuffer, in order
  bp_written,        \* device calls made by the loops
  sessDevice,        \* sessDevice[s]: l.device when Connect returned for s
  triggered,         \* triggered[s]: a disconnect trigger occurred in session s
  bp_callbacks,      \* bp_callbacks[s]: callback invocations by monitor s
  cbDevice,          \* cbDevice[s]: l.device when monitor s called the callback
  bp_moving          \* the command a caller inside Move is sending, or <<>>

bpVars == <<bp_client, bp_device, bp_wbuffer, bp_limiter, bp_disconnectFunc,
            bp_clients, bp_devices, clientClosed, deviceGone, bp_connectPc,
            bp_sessions, mon, bp_loop, panicked, bp_submitted,
            bp_enqueued, bp_written, sessDevice, triggered, bp_callbacks,
            cbDevice, bp_moving>>

vars == <<bleVars, bpVars>>

bpStruct == <<bp_client, bp_device, bp_wbuffer, bp_limiter, bp_disconnectFunc>>
bpLib == <<bp_clients, bp_devices, clientClosed, deviceGone>>
bpConnectVars == <<bp_connectPc, bp_sessions, sessDevice>>
bpMoveVars == <<bp_submitted, bp_enqueued, bp_moving>>
bpCallbackVars == <<bp_callbacks, cbDevice>>

\* A transmission loop: its place, the command it holds, the device whose
\* peripheral was l.p when it was started, and, while it is inside
\* WriteCharacteristic, observations made at the call: whether the stop
\* signal of its session had been placed, the clock steps since the previous
\* command write, whether the command it took from wbuffer was left there by
\* an earlier session, and whether the peripheral of l.p was connected with
\* no mode write to it having returned nil yet.
NoLoop == [pc |-> "none", hand |-> <<>>, sess |-> 0, afterStop |-> FALSE,
           gap |-> threshold, stale |-> FALSE, early |-> FALSE]

\* NewLaunch (launch.go:78-88): no peripheral, empty channels, nothing running.
InitLaunch ==
  /\ mutex = "free"
  /\ l_p = 0 /\ l_cmd = 0 /\ l_mode = 0
  /\ cmdDiscovered = 0 /\ modeDiscovered = 0 /\ stopWriting = 0
  /\ wbuffer = <<>>
  /\ limiter = 0
  /\ periph = 0
  /\ dev = [k \in Att |-> "none"]
  /\ connectPc = "idle" /\ connectK = 0
  /\ result = [k \in Att |-> "none"]
  /\ G = [k \in Att |-> "none"]
  /\ setupComplete = [k \in Att |-> FALSE]
  /\ M = [k \in Att |-> "none"]
  /\ errChan = [k \in Att |-> "empty"]
  /\ loop = [k \in Att |-> NoLoop]
  /\ phase = 0 /\ sinceWrite = threshold
  /\ submitted = <<>> /\ enqueued = <<>> /\ written = <<>>
  /\ stopPlaced = [k \in Att |-> FALSE]
  /\ stopOf = 0
  /\ calledConnected = [k \in Att |-> FALSE]
  /\ moving = <<>>
  /\ leftover = [n |-> 0, by |-> 0]
  /\ modeOk = [k \in Att |-> FALSE]

\* ------------------------------------------------------------ launch.Move
\* launch.go:216-220
ClampPosition(position) ==
  IF position < 0 THEN 0 ELSE IF position > 99 THEN 99 ELSE position

\* The clamp of the position applied to the speed: no floor at 20.
ClampSpeedNoFloor(speed) ==
  IF speed < 0 THEN 0 ELSE IF speed > 99 THEN 99 ELSE speed

\* launch.go:223-227
ClampSpeed(speed) ==
  IF speed < 20 THEN 20 ELSE IF speed > 99 THEN 99 ELSE speed

\* launch.go:229
Move_data(position, speed) ==
  <<byte(ClampPosition(position)), byte(ClampSpeed(speed))>>

Running(j) == loop[j].pc \notin {"none", "stopped"}
Blocked == {j \in Att : loop[j].pc = "blocked"}

\* launch.go:214-231, a call whose send does not block, in one step. The send
\* on wbuffer wakes a loop blocked in its select, goes to the buffer, or
\* blocks the caller when the buffer is full.
Move(position, speed) ==
  /\ Len(submitted) < MaxMoves
  /\ moving = <<>>
  /\ LET data == Move_data(position, speed) IN
     /\ \/ /\ Blocked # {}
           /\ \E j \in Blocked :
                loop' = [loop EXCEPT ![j].pc = "limiter", ![j].hand = data]
           /\ UNCHANGED wbuffer
        \/ /\ Blocked = {}
           /\ Len(wbuffer) < writeBufferSize
           /\ wbuffer' = Append(wbuffer, data)
           /\ UNCHANGED loop
     /\ submitted' = Append(submitted, <<position, speed>>)
     /\ enqueued' = Append(enqueued, data)
  /\ UNCHANGED moving
  /\ UNCHANGED bpVars
  /\ UNCHANGED <<mutex, refVars, cmdDiscovered, modeDiscovered, stopWriting,
                 limiter, periph, dev, connectVars, taskVars,
                 timeVars, writeVars, stopPlaced, stopOf>>

\* launch.go:214-229: a caller enters Move; the arguments are clamped and the
\* command is built.
MoveCall(position, speed) ==
  /\ Len(submitted) < MaxCalls
  /\ moving = <<>>
  /\ moving' = Move_data(position, speed)
  /\ submitted' = Append(submitted, <<position, speed>>)
  /\ UNCHANGED bpVars
  /\ UNCHANGED <<launchVars, periph, dev, connectVars, taskVars, loop,
                 timeVars, enqueued, writeVars, stopPlaced, stopOf>>

\* launch.go:230: l.wbuffer <- data completes, with a loop blocked in its
\* select or with room in the buffer, and Move returns; else the caller
\* stays blocked in the send.
MoveSend ==
  /\ moving # <<>>
  /\ \/ /\ Blocked # {}
        /\ \E j \in Blocked :
             loop' = [loop EXCEPT ![j].pc = "limiter", ![j].hand = moving]
        /\ UNCHANGED wbuffer
     \/ /\ Blocked = {}
        /\ Len(wbuffer) < writeBufferSize
        /\ wbuffer' = Append(wbuffer, moving)
        /\ UNCHANGED loop
  /\ enqueued' = Append(enqueued, moving)
  /\ moving' = <<>>
  /\ UNCHANGED bpVars
  /\ UNCHANGED <<mutex, refVars, cmdDiscovered, modeDiscovered, stopWriting,
                 limiter, periph, dev, connectVars, taskVars,
                 timeVars, submitted, writeVars, stopPlaced, stopOf>>

\* --------------------------------------------------------- launch.Connect
\* The client is Connected: the last Connect returned nil, its peripheral is
\* still connected and a transmission loop is running.
IsConnected ==
  /\ connectPc = "idle"
  /\ connectK > 0 /\ result[connectK] = "ok"
  /\ periph # 0 /\ periph = l_p
  /\ \E j \in Att : Running(j)

\* launch.go:109-111: the caller enters Connect and waits for the mutex.
ConnectCall ==
  /\ connectPc = "idle"
  /\ connectK < MaxConnects
  /\ connectK' = connectK + 1
  /\ connectPc' = "lock"
  /\ calledConnected' = [calledConnected EXCEPT ![connectK + 1] = IsConnected]
  /\ UNCHANGED bpVars
  /\ UNCHANGED <<launchVars, periph, dev, result, taskVars, loop, timeVars,
                 moveVars, writeVars, stopPlaced, stopOf>>

\* launch.go:111-116: gatt.NewDevice fails; Connect unlocks and returns err.
ConnectNewDeviceFails ==
  /\ connectPc = "lock"
  /\ mutex = "free"
  /\ result' = [result EXCEPT ![connectK] = "err"]
  /\ connectPc' = "idle"
  /\ UNCHANGED bpVars
  /\ UNCHANGED <<launchVars, periph, dev, connectK, calledConnected, taskVars,
                 loop, timeVars, moveVars, writeVars, stopPlaced, stopOf>>

\* launch.go:111-128: the mutex is taken, a new gatt device is made and the
\* discovery-wait goroutine is started: it registers the handlers and d.Init
\* starts the scan. The caller goes to its select.
ConnectNewDevice ==
  /\ connectPc = "lock"
  /\ mutex = "free"
  /\ mutex' = "connect"
  /\ dev' = [dev EXCEPT ![connectK] = "scanning"]
  /\ G' = [G EXCEPT ![connectK] = "wait0"]
  /\ connectPc' = "select"
  /\ UNCHANGED bpVars
  /\ UNCHANGED <<refVars, chanVars, periph, connectK, result,
                 calledConnected, setupComplete, M, errChan, loop, timeVars,
                 moveVars, writeVars, stopPlaced, stopOf>>

\* launch.go:131-137: one iteration of the loop that reads cmdDiscovered or
\* modeDiscovered; after the second read setupComplete <- true (capacity 1,
\* one sender: the send never blocks).
GRecv(k) ==
  /\ G[k] \in {"wait0", "wait1"}
  /\ \/ /\ cmdDiscovered = 1
        /\ cmdDiscovered' = 0
        /\ UNCHANGED modeDiscovered
     \/ /\ modeDiscovered = 1
        /\ modeDiscovered' = 0
        /\ UNCHANGED cmdDiscovered
  /\ IF G[k] = "wait0"
       THEN /\ G' = [G EXCEPT ![k] = "wait1"]
            /\ UNCHANGED setupComplete
       ELSE /\ G' = [G EXCEPT ![k] = "done"]
            /\ setupComplete' = [setupComplete EXCEPT ![k] = TRUE]
  /\ UNCHANGED bpVars
  /\ UNCHANGED <<mutex, refVars, stopWriting, wbuffer, limiter, periph, dev, connectVars, M, errChan, loop, timeVars, moveVars,
                 writeVars, stopPlaced, stopOf>>

\* launch.go:141-142: setup is complete; the mutex is released and the
\* caller starts the warm-up delay.
ConnectSetupComplete ==
  /\ connectPc = "select"
  /\ setupComplete[connectK]
  /\ setupComplete' = [setupComplete EXCEPT ![connectK] = FALSE]
  /\ mutex' = "free"
  /\ connectPc' = "warmup"
  /\ UNCHANGED bpVars
  /\ UNCHANGED <<refVars, chanVars, periph, dev, connectK,
                 result, calledConnected, G, M, errChan, loop, timeVars,
                 moveVars, writeVars, stopPlaced, stopOf>>

\* launch.go:156-158: time.After(connectionTimeout) fires; the mutex is
\* released and Connect returns ErrConnectionTimeout. The device made by this
\* call and its discovery-wait goroutine are left as they are.
ConnectTimeout ==
  /\ connectPc = "select"
  /\ mutex' = "free"
  /\ result' = [result EXCEPT ![connectK] = "ErrConnectionTimeout"]
  /\ connectPc' = "idle"
  /\ UNCHANGED bpVars
  /\ UNCHANGED <<refVars, chanVars, periph, dev, connectK,
                 calledConnected, taskVars, loop, timeVars, moveVars, writeVars,
                 stopPlaced, stopOf>>

\* launch.go:144-147, 174-176: readyTime has elapsed; writeMode starts its
\* goroutine and waits for errChan.
ConnectReady ==
  /\ connectPc = "warmup"
  /\ M' = [M EXCEPT ![connectK] = "lock"]
  /\ connectPc' = "writeMode"
  /\ UNCHANGED bpVars
  /\ UNCHANGED <<launchVars, periph, dev, connectK, result, calledConnected, G,
                 setupComplete, errChan, loop, timeVars, moveVars, writeVars,
                 stopPlaced, stopOf>>

\* launch.go:178-179: the writeMode goroutine takes the mutex and calls
\* WriteCharacteristic(l.mode, ...).
MWrite(k) ==
  /\ M[k] = "lock"
  /\ mutex = "free"
  /\ mutex' = "mode"
  /\ M' = [M EXCEPT ![k] = "inwrite"]
  /\ UNCHANGED bpVars
  /\ UNCHANGED <<refVars, chanVars, periph, dev, connectVars,
                 G, setupComplete, errChan, loop, timeVars, moveVars, writeVars,
                 stopPlaced, stopOf>>

\* launch.go:179-181: the write returns (nil only when the peripheral of l.p is
\* connected), the mutex is released and the error is sent on errChan.
MReturn(k) ==
  /\ M[k] = "inwrite"
  /\ \E err \in (IF periph # 0 /\ periph = l_p THEN {"nil", "err"} ELSE {"err"}) :
       /\ errChan' = [errChan EXCEPT ![k] = err]
       /\ modeOk' = IF err = "nil" THEN [modeOk EXCEPT ![l_p] = TRUE] ELSE modeOk
  /\ mutex' = "free"
  /\ M' = [M EXCEPT ![k] = "send2"]
  /\ UNCHANGED bpVars
  /\ UNCHANGED <<refVars, chanVars, periph, dev, connectVars,
                 G, setupComplete, loop, timeVars, moveVars, written, leftover,
                 stopPlaced, stopOf>>

\* launch.go:183: the second send, errChan <- nil, needs the first value to
\* have been read (capacity 1).
MSendNil(k) ==
  /\ M[k] = "send2"
  /\ errChan[k] = "empty"
  /\ errChan' = [errChan EXCEPT ![k] = "nil"]
  /\ M' = [M EXCEPT ![k] = "done"]
  /\ UNCHANGED bpVars
  /\ UNCHANGED <<launchVars, periph, dev, connectVars, G, setupComplete, loop,
                 timeVars, moveVars, writeVars, stopPlaced, stopOf>>

\* launch.go:186-187, 148-150: writeMode returns an error; Connect returns
\* ErrInit.
ConnectInitFails ==
  /\ connectPc = "writeMode"
  /\ errChan[connectK] = "err"
  /\ errChan' = [errChan EXCEPT ![connectK] = "empty"]
  /\ result' = [result EXCEPT ![connectK] = "ErrInit"]
  /\ connectPc' = "idle"
  /\ UNCHANGED bpVars
  /\ UNCHANGED <<launchVars, periph, dev, connectK, calledConnected, G,
                 setupComplete, M, loop, timeVars, moveVars, writeVars,
                 stopPlaced, stopOf>>

\* launch.go:188-189, 148-150: writeMode times out (ErrWriteTimeout); Connect
\* returns ErrInit.
ConnectInitTimeout ==
  /\ connectPc = "writeMode"
  /\ result' = [result EXCEPT ![connectK] = "ErrInit"]
  /\ connectPc' = "idle"
  /\ UNCHANGED bpVars
  /\ UNCHANGED <<launchVars, periph, dev, connectK, calledConnected, taskVars,
                 loop, timeVars, moveVars, writeVars, stopPlaced, stopOf>>

\* launch.go:186-187, 152-155: writeMode returns nil; the transmission loop
\* is started and Connect returns nil.
ConnectSuccess ==
  /\ connectPc = "writeMode"
  /\ errChan[connectK] = "nil"
  /\ errChan' = [errChan EXCEPT ![connectK] = "empty"]
  /\ loop' = [loop EXCEPT ![connectK] =
                [NoLoop EXCEPT !.pc = "enter", !.sess = l_p]]
  /\ result' = [result EXCEPT ![connectK] = "ok"]
  /\ connectPc' = "idle"
  /\ UNCHANGED bpVars
  /\ UNCHANGED <<launchVars, periph, dev, connectK, calledConnected, G,
                 setupComplete, M, timeVars, moveVars, writeVars, stopPlaced, stopOf>>

\* ------------------------------------------------- launch.writeFromBuffer
\* launch.go:197-201: the select takes the stop signal; the loop returns.
LoopSelectStop(j) ==
  /\ loop[j].pc = "enter"
  /\ stopWriting = 1
  /\ stopWriting' = 0
  /\ stopOf' = 0
  /\ loop' = [loop EXCEPT ![j].pc = "stopped"]
  /\ leftover' = IF wbuffer # <<>> /\ \A i \in Att : i > j => loop[i].pc = "none"
                    THEN [n |-> Len(wbuffer), by |-> j]
                    ELSE leftover
  /\ UNCHANGED bpVars
  /\ UNCHANGED <<mutex, refVars, cmdDiscovered, modeDiscovered, wbuffer, limiter,
                 periph, dev, connectVars, taskVars, timeVars,
                 moveVars, written, modeOk, stopPlaced>>

\* launch.go:197, 202: the select takes a command from wbuffer.
LoopSelectCmd(j) ==
  /\ loop[j].pc = "enter"
  /\ wbuffer # <<>>
  /\ loop' = [loop EXCEPT ![j].pc = "limiter", ![j].hand = Head(wbuffer),
                          ![j].stale = leftover.n > 0 /\ j > leftover.by]
  /\ wbuffer' = Tail(wbuffer)
  /\ leftover' = [leftover EXCEPT !.n = Max(0, @ - 1)]
  /\ UNCHANGED bpVars
  /\ UNCHANGED <<mutex, refVars, cmdDiscovered, modeDiscovered, stopWriting,
                 limiter, periph, dev, connectVars, taskVars,
                 timeVars, moveVars, written, modeOk, stopPlaced, stopOf>>

\* launch.go:197: no case of the select is ready; the loop blocks in it.
LoopBlock(j) ==
  /\ loop[j].pc = "enter"
  /\ stopWriting = 0
  /\ wbuffer = <<>>
  /\ loop' = [loop EXCEPT ![j].pc = "blocked"]
  /\ UNCHANGED bpVars
  /\ UNCHANGED <<launchVars, periph, dev, connectVars, taskVars, timeVars,
                 moveVars, writeVars, stopPlaced, stopOf>>

\* launch.go:204: <-l.limiter takes the tick that is in the buffer.
LoopLimiter(j) ==
  /\ loop[j].pc = "limiter"
  /\ limiter = 1
  /\ limiter' = 0
  /\ loop' = [loop EXCEPT ![j].pc = "lock"]
  /\ UNCHANGED bpVars
  /\ UNCHANGED <<mutex, refVars, cmdDiscovered, modeDiscovered, stopWriting,
                 wbuffer, periph, dev, connectVars, taskVars,
                 timeVars, moveVars, writeVars, stopPlaced, stopOf>>

\* launch.go:179: a mode write to the peripheral of device k has returned nil.
ModeWritten(k) == IF k = 0 THEN FALSE ELSE modeOk[k]

\* launch.go:205-206: the mutex is taken and WriteCharacteristic(l.cmd, b)
\* is called on l.p.
LoopWrite(j) ==
  /\ loop[j].pc = "lock"
  /\ mutex = "free"
  /\ mutex' = "loop"
  /\ written' = Append(written, loop[j].hand)
  /\ sinceWrite' = 0
  /\ loop' = [loop EXCEPT ![j].pc = "inwrite",
                          ![j].afterStop = stopPlaced[loop[j].sess],
                          ![j].gap = sinceWrite,
                          ![j].early = periph = l_p /\ ~ModeWritten(l_p)]
  /\ UNCHANGED bpVars
  /\ UNCHANGED <<refVars, chanVars, periph, dev, connectVars,
                 taskVars, phase, moveVars, leftover, modeOk, stopPlaced, stopOf>>

\* launch.go:206-207: the write returns and the mutex is released.
LoopWriteReturn(j) ==
  /\ loop[j].pc = "inwrite"
  /\ mutex' = "free"
  /\ loop' = [loop EXCEPT ![j].pc = "enter", ![j].afterStop = FALSE,
                          ![j].gap = threshold, ![j].stale = FALSE,
                          ![j].early = FALSE]
  /\ UNCHANGED bpVars
  /\ UNCHANGED <<refVars, chanVars, periph, dev, connectVars,
                 taskVars, timeVars, moveVars, writeVars, stopPlaced, stopOf>>

\* ----------------------------------------------------- gatt event handlers
\* launch.go:306-314: a scanning device sees the advertisement of the Launch
\* (it advertises while it is not connected), stores the peripheral, stops
\* scanning and asks for a connection.
onPeripheralDiscovered(k) ==
  /\ dev[k] = "scanning"
  /\ periph = 0
  /\ l_p' = k
  /\ dev' = [dev EXCEPT ![k] = "connecting"]
  /\ UNCHANGED bpVars
  /\ UNCHANGED <<mutex, l_cmd, l_mode, chanVars, periph,
                 connectVars, taskVars, loop, timeVars, moveVars, writeVars,
                 stopPlaced, stopOf>>

\* launch.go:264-272: the connection is made; the peripheral is stored and
\* its services are discovered. The discovery of the service or of the
\* characteristics may fail (launch.go:270-272, 240-242): nothing is notified.
onConnected(k) ==
  /\ dev[k] = "connecting"
  /\ periph = 0
  /\ periph' = k
  /\ l_p' = k
  /\ \E found \in BOOLEAN :
       dev' = [dev EXCEPT ![k] = IF found THEN "char1" ELSE "up"]
  /\ UNCHANGED bpVars
  /\ UNCHANGED <<mutex, l_cmd, l_mode, chanVars, connectVars,
                 taskVars, loop, timeVars, moveVars, writeVars, stopPlaced, stopOf>>

\* launch.go:245-250: the command characteristic is stored and notified on
\* modeDiscovered (the handler waits while that channel is full).
discoverCmd(k) ==
  /\ dev[k] = "char1"
  /\ modeDiscovered = 0
  /\ l_cmd' = k
  /\ modeDiscovered' = 1
  /\ dev' = [dev EXCEPT ![k] = "char2"]
  /\ UNCHANGED bpVars
  /\ UNCHANGED <<mutex, l_p, l_mode, cmdDiscovered, stopWriting, wbuffer,
                 limiter, periph, connectVars, taskVars, loop,
                 timeVars, moveVars, writeVars, stopPlaced, stopOf>>

\* launch.go:251-256: the mode characteristic is stored and notified on
\* cmdDiscovered.
discoverMode(k) ==
  /\ dev[k] = "char2"
  /\ cmdDiscovered = 0
  /\ l_mode' = k
  /\ cmdDiscovered' = 1
  /\ dev' = [dev EXCEPT ![k] = "up"]
  /\ UNCHANGED bpVars
  /\ UNCHANGED <<mutex, l_p, l_cmd, modeDiscovered, stopWriting, wbuffer,
                 limiter, periph, connectVars, taskVars, loop,
                 timeVars, moveVars, writeVars, stopPlaced, stopOf>>

\* The transport loses the connection of device k (the peripheral goes out
\* of range or is switched off); gatt will call onDisconnected.
LinkLost(k) ==
  /\ periph = k
  /\ periph' = 0
  /\ dev' = [dev EXCEPT ![k] = "down"]
  /\ UNCHANGED bpVars
  /\ UNCHANGED <<launchVars, connectVars, taskVars, loop, timeVars, moveVars,
                 writeVars, stopPlaced, stopOf>>

\* launch.go:163-169: Disconnect cancels the connection of l.p, if there is
\* one; gatt will call onDisconnected.
Disconnect ==
  /\ l_p # 0
  /\ periph = l_p
  /\ periph' = 0
  /\ dev' = [dev EXCEPT ![l_p] = "down"]
  /\ UNCHANGED bpVars
  /\ UNCHANGED <<launchVars, connectVars, taskVars, loop, timeVars, moveVars,
                 writeVars, stopPlaced, stopOf>>

\* launch.go:289-297: the stop signal is sent without blocking: to a loop
\* blocked in its select, else to the buffer of stopWriting, else it is
\* dropped. Then the device is stopped. (The call of the registered callback
\* two seconds later, launch.go:298-302, changes nothing of the client.)
onDisconnected(k) ==
  /\ dev[k] = "down"
  /\ \/ /\ Blocked # {}
        /\ \E j \in Blocked : loop' = [loop EXCEPT ![j].pc = "stopped"]
        /\ stopPlaced' = [stopPlaced EXCEPT ![k] = TRUE]
        /\ UNCHANGED stopOf
        /\ UNCHANGED stopWriting
     \/ /\ Blocked = {}
        /\ stopWriting = 0
        /\ stopWriting' = 1
        /\ stopPlaced' = [stopPlaced EXCEPT ![k] = TRUE]
        /\ stopOf' = k
        /\ UNCHANGED loop
     \/ /\ Blocked = {}
        /\ stopWriting = 1
        /\ UNCHANGED <<stopWriting, stopPlaced, stopOf, loop>>
  /\ dev' = [dev EXCEPT ![k] = "stopped"]
  /\ UNCHANGED bpVars
  /\ UNCHANGED <<mutex, refVars, cmdDiscovered, modeDiscovered, wbuffer, limiter,
                 periph, connectVars, taskVars, timeVars,
                 moveVars, writeVars>>

\* ------------------------------------------------------------------- time
Waiting == {j \in Att : loop[j].pc = "limiter"}

\* One clock step. time.Tick(threshold) (launch.go:85) sends a tick every
\* threshold steps on a channel of capacity 1: the tick goes to a loop that
\* waits in <-l.limiter (launch.go:204), else to the buffer of the channel,
\* and a tick that finds the buffer full is dropped.
Tick ==
  /\ phase' = (phase + 1) % threshold
  /\ sinceWrite' = Min(sinceWrite + 1, threshold)
  /\ \/ /\ phase' # 0 \/ limiter = 1
        /\ UNCHANGED <<limiter, loop>>
     \/ /\ phase' = 0 /\ limiter = 0 /\ Waiting = {}
        /\ limiter' = 1
        /\ UNCHANGED loop
     \/ /\ phase' = 0 /\ limiter = 0
        /\ \E j \in Waiting : loop' = [loop EXCEPT ![j].pc = "lock"]
        /\ UNCHANGED limiter
  /\ UNCHANGED bpVars
  /\ UNCHANGED <<mutex, refVars, cmdDiscovered, modeDiscovered, stopWriting,
                 wbuffer, periph, dev, connectVars, taskVars, moveVars,
                 writeVars, stopPlaced, stopOf>>

ConnectNext ==
  \/ ConnectCall
  \/ ConnectNewDeviceFails
  \/ ConnectNewDevice
  \/ ConnectSetupComplete
  \/ ConnectTimeout
  \/ ConnectReady
  \/ ConnectInitFails
  \/ ConnectInitTimeout
  \/ ConnectSuccess

TaskNext ==
  \/ \E k \in Att : GRecv(k)
  \/ \E k \in Att : MWrite(k)
  \/ \E k \in Att : MReturn(k)
  \/ \E k \in Att : MSendNil(k)

LoopNext ==
  \/ \E j \in Att : LoopSelectStop(j)
  \/ \E j \in Att : LoopSelectCmd(j)
  \/ \E j \in Att : LoopBlock(j)
  \/ \E j \in Att : LoopLimiter(j)
  \/ \E j \in Att : LoopWrite(j)
  \/ \E j \in Att : LoopWriteReturn(j)

TransportNext ==
  \/ \E k \in Att : onPeripheralDiscovered(k)
  \/ \E k \in Att : onConnected(k)
  \/ \E k \in Att : discoverCmd(k)
  \/ \E k \in Att : discoverMode(k)
  \/ \E k \in Att : LinkLost(k)
  \/ \E k \in Att : onDisconnected(k)

LaunchNext ==
  \/ ConnectNext
  \/ TaskNext
  \/ LoopNext
  \/ TransportNext
  \/ \E a \in MoveArgs : Move(a[1], a[2])
  \/ Disconnect
  \/ Tick

(***************************************************************************)
(* The Buttplug client, buttplug.go.                                       *)
(***************************************************************************)
\* A monitor: its place and the channels its select waits on (the device and
\* the client whose Disconnected() it evaluated on entering the select).
NoMon == [pc |-> "none", dch |-> 0, cch |-> 0]
NoBPLoop == [pc |-> "none", hand |-> <<>>]

\* NewButtplugLaunch (buttplug.go:32-42)
InitButtplug ==
  /\ bp_client = 0 /\ bp_device = 0
  /\ bp_wbuffer = <<>>
  /\ bp_limiter = 0
  /\ bp_disconnectFunc = FALSE
  /\ bp_clients = 0 /\ bp_devices = 0
  /\ clientClosed = [c \in Clients |-> FALSE]
  /\ deviceGone = [d \in Sess |-> FALSE]
  /\ bp_connectPc = "idle"
  /\ bp_sessions = 0
  /\ mon = [s \in Sess |-> NoMon]
  /\ bp_loop = [s \in Sess |-> NoBPLoop]
  /\ panicked = "no"
  /\ bp_submitted = <<>> /\ bp_enqueued = <<>> /\ bp_written = <<>>
  /\ sessDevice = [s \in Sess |-> 0]
  /\ triggered = [s \in Sess |-> FALSE]
  /\ bp_callbacks = [s \in Sess |-> 0]
  /\ cbDevice = [s \in Sess |-> 0]
  /\ bp_moving = <<>>

\* A goroutine that dereferences nil panics, which ends the process: every
\* step needs a live process.
Alive == panicked = "no"

\* ------------------------------------------------------ buttplugLaunch.Move
\* buttplug.go:154-158
BPClampPosition(position) ==
  IF position < 0 THEN 0 ELSE IF position > 99 THEN 99 ELSE position

\* buttplug.go:160-164
BPClampSpeed(speed) ==
  IF speed < 20 THEN 20 ELSE IF speed > 99 THEN 99 ELSE speed

\* buttplug.go:166
BPMove_data(position, speed) ==
  <<BPClampPosition(position), BPClampSpeed(speed)>>

BPBlocked == {s \in Sess : bp_loop[s].pc = "blocked"}

\* buttplug.go:152-168
BPMove(position, speed) ==
  /\ Alive
  /\ Len(bp_submitted) < MaxBPMoves
  /\ bp_moving = <<>>
  /\ LET data == BPMove_data(position, speed) IN
     /\ \/ /\ BPBlocked # {}
           /\ \E s \in BPBlocked :
                bp_loop' = [bp_loop EXCEPT ![s].pc = "limiter", ![s].hand = data]
           /\ UNCHANGED bp_wbuffer
        \/ /\ BPBlocked = {}
           /\ Len(bp_wbuffer) < writeBufferSize
           /\ bp_wbuffer' = Append(bp_wbuffer, data)
           /\ UNCHANGED bp_loop
     /\ bp_submitted' = Append(bp_submitted, <<position, speed>>)
     /\ bp_enqueued' = Append(bp_enqueued, data)
  /\ UNCHANGED bp_moving
  /\ UNCHANGED bleVars
  /\ UNCHANGED <<bp_client, bp_device, bp_limiter, bp_disconnectFunc, bpLib,
                 bpConnectVars, mon, panicked, bp_written, triggered,
                 bpCallbackVars>>

\* buttplug.go:152-166: a caller enters Move; the arguments are clamped and
\* the command is built.
BPMoveCall(position, speed) ==
  /\ Alive
  /\ Len(bp_submitted) < MaxCalls
  /\ bp_moving = <<>>
  /\ bp_moving' = BPMove_data(position, speed)
  /\ bp_submitted' = Append(bp_submitted, <<position, speed>>)
  /\ UNCHANGED bleVars
  /\ UNCHANGED <<bpStruct, bpLib, bpConnectVars, mon, bp_loop, panicked,
                 bp_enqueued, bp_written, triggered, bpCallbackVars>>

\* buttplug.go:167: l.wbuffer <- data completes, with a loop blocked in its
\* select or with room in the buffer, and Move returns; else the caller
\* stays blocked in the send.
BPMoveSend ==
  /\ Alive
  /\ bp_moving # <<>>
  /\ \/ /\ BPBlocked # {}
        /\ \E s \in BPBlocked :
             bp_loop' = [bp_loop EXCEPT ![s].pc = "limiter", ![s].hand = bp_moving]
        /\ UNCHANGED bp_wbuffer
     \/ /\ BPBlocked = {}
        /\ Len(bp_wbuffer) < writeBufferSize
        /\ bp_wbuffer' = Append(bp_wbuffer, bp_moving)
        /\ UNCHANGED bp_loop
  /\ bp_enqueued' = Append(bp_enqueued, bp_moving)
  /\ bp_moving' = <<>>
  /\ UNCHANGED bleVars
  /\ UNCHANGED <<bp_client, bp_device, bp_limiter, bp_disconnectFunc, bpLib,
                 bpConnectVars, mon, panicked, bp_submitted, bp_written,
                 triggered, bpCallbackVars>>

\* buttplug.go:172-174. The caller registers its callback before its first
\* Connect call.
BPHandleDisconnect ==
  /\ Alive
  /\ ~bp_disconnectFunc
  /\ bp_connectPc = "idle" /\ bp_clients = 0
  /\ bp_disconnectFunc' = TRUE
  /\ UNCHANGED bleVars
  /\ UNCHANGED <<bp_client, bp_device, bp_wbuffer, bp_limiter, bpLib,
                 bpConnectVars, mon, bp_loop, panicked, bpMoveVars, bp_written,
                 triggered, bpCallbackVars>>

\* --------------------------------------------------- buttplugLaunch.Connect
\* Session s is in its Connected window: Connect has returned nil for it and
\* its monitor has not taken a disconnect trigger.
BPConnected(s) == mon[s].pc \in {"start", "blocked"}

\* buttplug.go:46-52: l.client is set and its Disconnected() is not closed.
ClientOpen == IF bp_client = 0 THEN FALSE ELSE ~clientClosed[bp_client]

\* buttplug.go:70-75: l.device is set and its Disconnected() is not closed.
DeviceLive == IF bp_device = 0 THEN FALSE ELSE ~deviceGone[bp_device]

\* buttplug.go:64-68, 45-53: the client is still connected to Buttplug.
BPConnectCall ==
  /\ Alive
  /\ bp_connectPc = "idle"
  /\ ClientOpen
  /\ bp_connectPc' = "device"
  /\ UNCHANGED bleVars
  /\ UNCHANGED <<bpStruct, bpLib, bp_sessions, sessDevice, mon,
                 bp_loop, panicked, bpMoveVars, bp_written, triggered,
                 bpCallbackVars>>

\* buttplug.go:64-68, 45-59: there is no client, or its Disconnected() is
\* closed: a new client is made.
BPConnectNewClient ==
  /\ Alive
  /\ bp_connectPc = "idle"
  /\ ~ClientOpen
  /\ bp_clients < MaxClients
  /\ bp_clients' = bp_clients + 1
  /\ bp_client' = bp_clients + 1
  /\ bp_connectPc' = "device"
  /\ UNCHANGED bleVars
  /\ UNCHANGED <<bp_device, bp_wbuffer, bp_limiter, bp_disconnectFunc,
                 bp_devices, clientClosed, deviceGone, bp_sessions,
                 sessDevice, mon, bp_loop, panicked, bpMoveVars, bp_written,
                 triggered, bpCallbackVars>>

\* buttplug.go:54-57, 66-68: NewClient fails; Connect returns the error.
BPConnectNewClientFails ==
  /\ Alive
  /\ bp_connectPc = "idle"
  /\ ~ClientOpen
  /\ UNCHANGED bleVars
  /\ UNCHANGED <<bpStruct, bpLib, bp_connectPc, bp_sessions, sessDevice, mon,
                 bp_loop, panicked, bpMoveVars, bp_written, triggered,
                 bpCallbackVars>>

\* buttplug.go:69-76: a device is still connected; Connect returns nil.
BPConnectStillConnected ==
  /\ Alive
  /\ bp_connectPc = "device"
  /\ DeviceLive
  /\ bp_connectPc' = "idle"
  /\ UNCHANGED bleVars
  /\ UNCHANGED <<bpStruct, bpLib, bp_sessions, sessDevice, mon, bp_loop,
                 panicked, bpMoveVars, bp_written, triggered, bpCallbackVars>>

\* buttplug.go:69-76: no device, or its Disconnected() is closed.
BPConnectNoDevice ==
  /\ Alive
  /\ bp_connectPc = "device"
  /\ ~DeviceLive
  /\ bp_connectPc' = "scan"
  /\ UNCHANGED bleVars
  /\ UNCHANGED <<bpStruct, bpLib, bp_sessions, sessDevice, mon,
                 bp_loop, panicked, bpMoveVars, bp_written, triggered,
                 bpCallbackVars>>

\* buttplug.go:77-91: StartScanning and WaitOnScanning on l.client; a nil
\* l.client is dereferenced. The scan fails on a closed client and may fail
\* on an open one.
BPConnectScan ==
  /\ Alive
  /\ bp_connectPc = "scan"
  /\ IF bp_client = 0
       THEN /\ panicked' = "connect"
            /\ UNCHANGED bp_connectPc
       ELSE /\ \E ok \in (IF clientClosed[bp_client] THEN {FALSE} ELSE BOOLEAN) :
                 bp_connectPc' = IF ok THEN "pick" ELSE "idle"
            /\ UNCHANGED panicked
  /\ UNCHANGED bleVars
  /\ UNCHANGED <<bpStruct, bpLib, bp_sessions, sessDevice, mon, bp_loop,
                 bpMoveVars, bp_written, triggered, bpCallbackVars>>

\* buttplug.go:93-121: l.client.Devices() (a nil l.client is dereferenced)
\* holds a Launch, a new device object, or none. With none l.device keeps
\* its value, and Connect returns ErrDiscover when that is nil. Otherwise the
\* monitor and the transmission loop of a new session are started and
\* Connect returns nil.
BPConnectPick ==
  /\ Alive
  /\ bp_connectPc = "pick"
  /\ IF bp_client = 0
       THEN /\ panicked' = "connect"
            /\ UNCHANGED <<bp_device, bp_devices, bp_connectPc, bp_sessions,
                           sessDevice, mon, bp_loop>>
       ELSE /\ \E found \in BOOLEAN :
                 /\ found => bp_devices < MaxSessions /\ ~clientClosed[bp_client]
                 /\ bp_devices' = IF found THEN bp_devices + 1 ELSE bp_devices
                 /\ bp_device' = IF found THEN bp_devices + 1 ELSE bp_device
            /\ bp_connectPc' = "idle"
            /\ IF bp_device' = 0
                 THEN UNCHANGED <<bp_sessions, sessDevice, mon, bp_loop>>
                 ELSE /\ bp_sessions < MaxSessions
                      /\ bp_sessions' = bp_sessions + 1
                      /\ sessDevice' = [sessDevice EXCEPT ![bp_sessions + 1] = bp_device']
                      /\ mon' = [mon EXCEPT ![bp_sessions + 1].pc = "start"]
                      /\ bp_loop' = [bp_loop EXCEPT ![bp_sessions + 1].pc = "enter"]
            /\ UNCHANGED panicked
  /\ UNCHANGED bleVars
  /\ UNCHANGED <<bp_client, bp_wbuffer, bp_limiter, bp_disconnectFunc,
                 bp_clients, clientClosed, deviceGone, bpMoveVars, bp_written,
                 triggered, bpCallbackVars>>

\* ------------------------------------------------- the disconnect monitor
\* buttplug.go:105-109: the monitor enters its select: it evaluates
\* l.device.Disconnected() and l.client.Disconnected() (a nil l.device or
\* l.client is dereferenced), takes a case that is ready, or blocks. The
\* case of the device (buttplug.go:106) has no body.
BPMonStart(s) ==
  /\ Alive
  /\ mon[s].pc = "start"
  /\ IF bp_device = 0 \/ bp_client = 0
       THEN /\ panicked' = "monitor"
            /\ UNCHANGED mon
       ELSE /\ \/ /\ deviceGone[bp_device]
                  /\ mon' = [mon EXCEPT ![s] =
                       [pc |-> "stop", dch |-> bp_device, cch |-> bp_client]]
               \/ /\ clientClosed[bp_client]
                  /\ mon' = [mon EXCEPT ![s] =
                       [pc |-> "took_client", dch |-> bp_device, cch |-> bp_client]]
               \/ /\ ~deviceGone[bp_device] /\ ~clientClosed[bp_client]
                  /\ mon' = [mon EXCEPT ![s] =
                       [pc |-> "blocked", dch |-> bp_device, cch |-> bp_client]]
            /\ UNCHANGED panicked
  /\ UNCHANGED bleVars
  /\ UNCHANGED <<bpStruct, bpLib, bpConnectVars, bp_loop, bpMoveVars,
                 bp_written, triggered, bpCallbackVars>>

\* The monitors blocked on a channel that is closed take its case. The case
\* of the device (buttplug.go:106) has no body: the monitor is at its send
\* on stopWriting.
Wake(m, d, c) ==
  [s \in Sess |->
     IF m[s].pc = "blocked" /\ d # 0 /\ m[s].dch = d
       THEN [m[s] EXCEPT !.pc = "stop"]
     ELSE IF m[s].pc = "blocked" /\ c # 0 /\ m[s].cch = c
       THEN [m[s] EXCEPT !.pc = "took_client"]
     ELSE m[s]]

\* golibbuttplug: device d is removed; its Disconnected() is closed.
DeviceGone(d) ==
  /\ Alive
  /\ d <= bp_devices
  /\ ~deviceGone[d]
  /\ deviceGone' = [deviceGone EXCEPT ![d] = TRUE]
  /\ mon' = Wake(mon, d, 0)
  /\ triggered' = [s \in Sess |->
                     triggered[s] \/ (BPConnected(s) /\ sessDevice[s] = d)]
  /\ UNCHANGED bleVars
  /\ UNCHANGED <<bpStruct, bp_clients, bp_devices, clientClosed, bpConnectVars,
                 bp_loop, panicked, bpMoveVars, bp_written, bpCallbackVars>>

\* golibbuttplug: the connection of client c to the server is lost; its
\* Disconnected() is closed.
ClientGone(c) ==
  /\ Alive
  /\ c <= bp_clients
  /\ ~clientClosed[c]
  /\ clientClosed' = [clientClosed EXCEPT ![c] = TRUE]
  /\ mon' = Wake(mon, 0, c)
  /\ triggered' = [s \in Sess |-> triggered[s] \/ (BPConnected(s) /\ bp_client = c)]
  /\ UNCHANGED bleVars
  /\ UNCHANGED <<bpStruct, bp_clients, bp_devices, deviceGone, bpConnectVars,
                 bp_loop, panicked, bpMoveVars, bp_written, bpCallbackVars>>

\* A Disconnect whose request waits for its receiver: a monitor that has not
\* reached its select yet takes it there.
BPDisconnectWaits ==
  /\ Alive
  /\ \E s \in Sess :
       /\ mon[s].pc \in {"start", "blocked"}
       /\ mon' = [mon EXCEPT ![s].pc = "took_disconnect"]
  /\ triggered' = [s \in Sess |-> triggered[s] \/ BPConnected(s)]
  /\ UNCHANGED bleVars
  /\ UNCHANGED <<bpStruct, bpLib, bpConnectVars, bp_loop, panicked, bpMoveVars,
                 bp_written, bpCallbackVars>>

\* buttplug.go:125-130: the send on l.disconnect is taken by a monitor that
\* is blocked in its select; with none, the default case drops it.
BPDisconnect ==
  /\ Alive
  /\ \/ \E s \in Sess :
          /\ mon[s].pc = "blocked"
          /\ mon' = [mon EXCEPT ![s].pc = "took_disconnect"]
     \/ /\ \A s \in Sess : mon[s].pc # "blocked"
        /\ UNCHANGED mon
  /\ triggered' = [s \in Sess |-> triggered[s] \/ BPConnected(s)]
  /\ UNCHANGED bleVars
  /\ UNCHANGED <<bpStruct, bpLib, bpConnectVars, bp_loop, panicked, bpMoveVars,
                 bp_written, bpCallbackVars>>

\* buttplug.go:107-108: case <-l.client.Disconnected().
BPMonClient(s) ==
  /\ Alive
  /\ mon[s].pc = "took_client"
  /\ bp_client' = 0
  /\ mon' = [mon EXCEPT ![s].pc = "stop"]
  /\ UNCHANGED bleVars
  /\ UNCHANGED <<bp_device, bp_wbuffer, bp_limiter, bp_disconnectFunc, bpLib,
                 bpConnectVars, bp_loop, panicked, bpMoveVars, bp_written,
                 triggered, bpCallbackVars>>

\* buttplug.go:109-112: case <-l.disconnect: StopDeviceCmd on l.device and
\* Close on l.client (either may be nil), which closes the client's
\* Disconnected().
BPMonDisconnect(s) ==
  /\ Alive
  /\ mon[s].pc = "took_disconnect"
  /\ IF bp_device = 0 \/ bp_client = 0
       THEN /\ panicked' = "monitor"
            /\ UNCHANGED <<bp_client, clientClosed, mon>>
       ELSE /\ clientClosed' = [clientClosed EXCEPT ![bp_client] = TRUE]
            /\ bp_client' = 0
            /\ mon' = Wake([mon EXCEPT ![s].pc = "stop"], 0, bp_client)
            /\ UNCHANGED panicked
  /\ UNCHANGED bleVars
  /\ UNCHANGED <<bp_device, bp_wbuffer, bp_limiter, bp_disconnectFunc,
                 bp_clients, bp_devices, deviceGone, bpConnectVars, bp_loop,
                 bpMoveVars, bp_written, triggered, bpCallbackVars>>

\* buttplug.go:114, 137-140: stopWriting <- true on the unbuffered channel of
\* the session, received by the session's loop in its select; the loop returns.
BPMonStop(s) ==
  /\ Alive
  /\ mon[s].pc = "stop"
  /\ bp_loop[s].pc \in {"enter", "blocked"}
  /\ mon' = [mon EXCEPT ![s].pc = "clear"]
  /\ bp_loop' = [bp_loop EXCEPT ![s].pc = "stopped"]
  /\ UNCHANGED bleVars
  /\ UNCHANGED <<bpStruct, bpLib, bpConnectVars, panicked, bpMoveVars,
                 bp_written, triggered, bpCallbackVars>>

\* buttplug.go:115
BPMonClear(s) ==
  /\ Alive
  /\ mon[s].pc = "clear"
  /\ bp_device' = 0
  /\ mon' = [mon EXCEPT ![s].pc = "callback"]
  /\ UNCHANGED bleVars
  /\ UNCHANGED <<bp_client, bp_wbuffer, bp_limiter, bp_disconnectFunc, bpLib,
                 bpConnectVars, bp_loop, panicked, bpMoveVars, bp_written,
                 triggered, bpCallbackVars>>

\* buttplug.go:116-118
BPMonCallback(s) ==
  /\ Alive
  /\ mon[s].pc = "callback"
  /\ mon' = [mon EXCEPT ![s].pc = "done"]
  /\ IF bp_disconnectFunc
       THEN /\ bp_callbacks' = [bp_callbacks EXCEPT ![s] = @ + 1]
            /\ cbDevice' = [cbDevice EXCEPT ![s] = bp_device]
       ELSE UNCHANGED bpCallbackVars
  /\ UNCHANGED bleVars
  /\ UNCHANGED <<bpStruct, bpLib, bpConnectVars, bp_loop, panicked, bpMoveVars,
                 bp_written, triggered>>

\* ----------------------------------------- buttplugLaunch.writeFromBuffer
\* buttplug.go:136, 141: the select takes a command from wbuffer.
BPLoopSelectCmd(s) ==
  /\ Alive
  /\ bp_loop[s].pc = "enter"
  /\ bp_wbuffer # <<>>
  /\ bp_loop' = [bp_loop EXCEPT ![s].pc = "limiter", ![s].hand = Head(bp_wbuffer)]
  /\ bp_wbuffer' = Tail(bp_wbuffer)
  /\ UNCHANGED bleVars
  /\ UNCHANGED <<bp_client, bp_device, bp_limiter, bp_disconnectFunc, bpLib,
                 bpConnectVars, mon, panicked, bpMoveVars, bp_written, triggered,
                 bpCallbackVars>>

\* buttplug.go:136: no case of the select is ready; the loop blocks in it.
BPLoopBlock(s) ==
  /\ Alive
  /\ bp_loop[s].pc = "enter"
  /\ bp_wbuffer = <<>>
  /\ mon[s].pc # "stop"
  /\ bp_loop' = [bp_loop EXCEPT ![s].pc = "blocked"]
  /\ UNCHANGED bleVars
  /\ UNCHANGED <<bpStruct, bpLib, bpConnectVars, mon, panicked, bpMoveVars,
                 bp_written, triggered, bpCallbackVars>>

\* buttplug.go:144: <-l.limiter.
BPLoopLimiter(s) ==
  /\ Alive
  /\ bp_loop[s].pc = "limiter"
  /\ bp_limiter = 1
  /\ bp_limiter' = 0
  /\ bp_loop' = [bp_loop EXCEPT ![s].pc = "call"]
  /\ UNCHANGED bleVars
  /\ UNCHANGED <<bp_client, bp_device, bp_wbuffer, bp_disconnectFunc, bpLib,
                 bpConnectVars, mon, panicked, bpMoveVars, bp_written, triggered,
                 bpCallbackVars>>

\* The monitor of a session that selected device d has stopped the session's
\* loop and is clearing l.device, or has done so.
TornDown(d) ==
  \E s \in Sess : sessDevice[s] = d /\ mon[s].pc \in {"clear", "callback", "done"}

\* buttplug.go:145: l.device.FleshlightLaunchFW12Cmd(b[0], b[1]); a nil
\* l.device is dereferenced.
BPLoopCmd(s) ==
  /\ Alive
  /\ bp_loop[s].pc = "call"
  /\ IF bp_device = 0
       THEN /\ panicked' = "loop"
            /\ UNCHANGED <<bp_loop, bp_written>>
       ELSE /\ bp_written' = Append(bp_written,
                 [cmd |-> bp_loop[s].hand, dev |-> bp_device,
                  torn |-> TornDown(bp_device)])
            /\ bp_loop' = [bp_loop EXCEPT ![s].pc = "enter"]
            /\ UNCHANGED panicked
  /\ UNCHANGED bleVars
  /\ UNCHANGED <<bpStruct, bpLib, bpConnectVars, mon, bpMoveVars, triggered,
                 bpCallbackVars>>

\* buttplug.go:40: the ticker of the limiter sends a tick; a tick that finds
\* the channel full is dropped.
BPLimiterTick ==
  /\ Alive
  /\ bp_limiter = 0
  /\ bp_limiter' = 1
  /\ UNCHANGED bleVars
  /\ UNCHANGED <<bp_client, bp_device, bp_wbuffer, bp_disconnectFunc, bpLib,
                 bpConnectVars, mon, bp_loop, panicked, bpMoveVars, bp_written,
                 triggered, bpCallbackVars>>

BPConnectNext ==
  \/ BPConnectCall
  \/ BPConnectNewClient
  \/ BPConnectNewClientFails
  \/ BPConnectStillConnected
  \/ BPConnectNoDevice
  \/ BPConnectScan
  \/ BPConnectPick

BPMonNext ==
  \/ \E s \in Sess : BPMonStart(s)
  \/ \E s \in Sess : BPMonClient(s)
  \/ \E s \in Sess : BPMonDisconnect(s)
  \/ \E s \in Sess : BPMonStop(s)
  \/ \E s \in Sess : BPMonClear(s)
  \/ \E s \in Sess : BPMonCallback(s)

BPLoopNext ==
  \/ \E s \in Sess : BPLoopSelectCmd(s)
  \/ \E s \in Sess : BPLoopBlock(s)
  \/ \E s \in Sess : BPLoopLimiter(s)
  \/ \E s \in Sess : BPLoopCmd(s)

BPEventNext ==
  \/ \E d \in Sess : DeviceGone(d)
  \/ \E c \in Clients : ClientGone(c)

ButtplugNext ==
  \/ BPConnectNext
  \/ BPMonNext
  \/ BPLoopNext
  \/ BPEventNext
  \/ BPLimiterTick
  \/ \E a \in BPMoveArgs : BPMove(a[1], a[2])
  \/ BPDisconnect
  \/ BPHandleDisconnect

(***************************************************************************)
(* Specifications.                                                         *)
(***************************************************************************)
Init == InitLaunch /\ InitButtplug

\* The BLE client.
Next == LaunchNext

Spec == Init /\ [][Next]_vars

\* The goroutines of the BLE client are scheduled fairly, timers fire and
\* gatt calls onDisconnected after the link is lost: the discovery-wait and
\* writeMode goroutines and the transmission loop of every Connect call, the
\* steps inside a Connect call, the clock. Calls of the API and the events of
\* the peripheral (advertisement, connection, discovery, link loss) need not
\* happen.
GStep(k) == GRecv(k)

MStep(k) == MWrite(k) \/ MReturn(k) \/ MSendNil(k)

WStep(j) ==
  \/ LoopSelectStop(j)
  \/ LoopSelectCmd(j)
  \/ LoopBlock(j)
  \/ LoopLimiter(j)
  \/ LoopWrite(j)
  \/ LoopWriteReturn(j)

CStep ==
  \/ ConnectNewDevice
  \/ ConnectSetupComplete
  \/ ConnectTimeout
  \/ ConnectReady
  \/ ConnectInitFails
  \/ ConnectInitTimeout
  \/ ConnectSuccess

FairSpec ==
  /\ Spec
  /\ \A k \in Att : WF_vars(GStep(k)) /\ WF_vars(MStep(k)) /\ WF_vars(WStep(k))
  /\ \A k \in Att : WF_vars(onDisconnected(k))
  /\ WF_vars(CStep)
  /\ WF_vars(Tick)

\* The same with a transport that need not respond: a WriteCharacteristic
\* call that has been made need not return.
MOwnStep(k) == MWrite(k) \/ MSendNil(k)

WOwnStep(j) ==
  \/ LoopSelectStop(j)
  \/ LoopSelectCmd(j)
  \/ LoopBlock(j)
  \/ LoopLimiter(j)
  \/ LoopWrite(j)

FairSpecSilent ==
  /\ Spec
  /\ \A k \in Att : WF_vars(GStep(k)) /\ WF_vars(MOwnStep(k)) /\ WF_vars(WOwnStep(k))
  /\ \A k \in Att : WF_vars(onDisconnected(k))
  /\ WF_vars(CStep)
  /\ WF_vars(Tick)

\* The Buttplug client.
NextBP == ButtplugNext

SpecBP == Init /\ [][NextBP]_vars

\* The goroutines of the Buttplug client are scheduled fairly: the monitor and
\* the transmission loop of every session, the ticker of the limiter, and the
\* steps inside a Connect call. Calls of the API and events of the library
\* need not happen.
MonStep(s) ==
  \/ BPMonStart(s)
  \/ BPMonClient(s)
  \/ BPMonDisconnect(s)
  \/ BPMonStop(s)
  \/ BPMonClear(s)
  \/ BPMonCallback(s)

LoopStep(s) ==
  \/ BPLoopSelectCmd(s)
  \/ BPLoopBlock(s)
  \/ BPLoopLimiter(s)
  \/ BPLoopCmd(s)

ConnectStep ==
  \/ BPConnectStillConnected
  \/ BPConnectNoDevice
  \/ BPConnectScan
  \/ BPConnectPick

FairSpecBP ==
  /\ SpecBP
  /\ \A s \in Sess : WF_vars(MonStep(s)) /\ WF_vars(LoopStep(s))
  /\ WF_vars(BPLimiterTick)
  /\ WF_vars(ConnectStep)

\* Move alone, on either client, with no session: nothing drains wbuffer.
NextMove ==
  \/ \E position \in Positions, speed \in Speeds :
       /\ Len(submitted) + Len(bp_submitted) < MaxMoves
       /\ Move(position, speed)
  \/ \E position \in Positions, speed \in Speeds :
       /\ Len(submitted) + Len(bp_submitted) < MaxMoves
       /\ BPMove(position, speed)

SpecMove == Init /\ [][NextMove]_vars

\* Move calls on a client that has no session, on either client: a call and
\* the completion of its send are separate steps. A send that can complete
\* does complete.
NextFill ==
  \/ \E a \in FillArgs : MoveCall(a[1], a[2])
  \/ MoveSend
  \/ \E a \in FillArgs : BPMoveCall(a[1], a[2])
  \/ BPMoveSend

SpecFill == Init /\ [][NextFill]_vars

FairSpecFill == SpecFill /\ WF_vars(MoveSend) /\ WF_vars(BPMoveSend)

(***************************************************************************)
(* Claims.                                                                 *)
(***************************************************************************)
Clamp(x, lo, hi) == Min(Max(x, lo), hi)

Command(args) == <<Clamp(args[1], 0, 99), Clamp(args[2], 20, 99)>>

\* C1: for every (position, speed) passed to Move, on either client, the
\* command placed on the write buffer is (min(max(position,0),99),
\* min(max(speed,20),99)), whatever was submitted before: with nothing
\* draining it, the write buffer holds exactly the commands of the Move calls
\* made, in order.
C1_MoveClamps ==
  /\ Len(wbuffer) = Len(submitted)
  /\ \A i \in 1..Len(submitted) : wbuffer[i] = Command(submitted[i])
  /\ enqueued = wbuffer
  /\ Len(bp_wbuffer) = Len(bp_submitted)
  /\ \A i \in 1..Len(bp_submitted) : bp_wbuffer[i] = Command(bp_submitted[i])
  /\ bp_enqueued = bp_wbuffer

\* Both clients have clamped an argument pair that is out of range on both
\* sides.
C1_Witness ==
  /\ submitted = << <<-1, 19>> >> /\ wbuffer = << <<0, 20>> >>
  /\ bp_submitted = << <<306, 100>> >> /\ bp_wbuffer = << <<99, 99>> >>

\* w is a subsequence of e: the elements of w occur in e in the same order,
\* each at a place of its own.
IsSubsequence(w, e) ==
  \E f \in [1..Len(w) -> 1..Len(e)] :
    /\ \A i \in 1..Len(w) : e[f[i]] = w[i]
    /\ \A i, j \in 1..Len(w) : i < j => f[i] < f[j]

\* C2: the commands written to the peripheral by writeFromBuffer are a
\* subsequence, in the same order, of the commands submitted by Move: none is
\* reordered, duplicated or merged.
C2_SubmissionOrder == IsSubsequence(written, enqueued)

\* C3: any two consecutive command transmissions are separated by at least
\* the threshold: a loop that calls WriteCharacteristic does so at least
\* threshold clock steps after the previous command write.
C3_MinimumSpacing ==
  \A j \in Att : loop[j].pc = "inwrite" => loop[j].gap >= threshold

\* C4: once onDisconnected has placed the stop signal of a session, the
\* transmission loop of that session makes no further WriteCharacteristic
\* call.
C4_NoWriteAfterStop ==
  \A j \in Att : loop[j].pc = "inwrite" => ~loop[j].afterStop

\* C5: a Connect call made while the client is Connected creates no second
\* session (no new device, no discovery-wait goroutine), starts no second
\* transmission loop and does not fail with a timeout or an initialization
\* error.
C5_ConnectWhileConnected ==
  \A k \in Att :
    calledConnected[k] =>
      /\ dev[k] = "none"
      /\ G[k] = "none"
      /\ loop[k].pc = "none"
      /\ result[k] \notin {"ErrConnectionTimeout", "ErrInit"}

\* C6: in the Buttplug client, a disconnect trigger (device signal, client
\* signal or Disconnect() call) that occurs while a session is Connected, with
\* a callback registered, leads to exactly one invocation of the callback for
\* that session: it is eventually invoked, and it is never invoked twice.
C6_ExactlyOneCallback ==
  \A s \in Sess :
    /\ [](triggered[s] /\ bp_disconnectFunc => <>(bp_callbacks[s] = 1))
    /\ [](bp_callbacks[s] <= 1)

\* C7: in the Buttplug client, when the disconnect callback of a session has
\* been invoked, the session's transmission loop had terminated and l.device
\* was nil at the invocation.
C7_CallbackAfterCleanup ==
  \A s \in Sess :
    bp_callbacks[s] > 0 => bp_loop[s].pc = "stopped" /\ cbDevice[s] = 0

\* C8: the transmission loop never issues a device call while l.device is nil
\* (the call dereferences it) or is the device of a session that has been
\* torn down.
C8_NoWriteOutsideSession ==
  /\ panicked # "loop"
  /\ \A i \in 1..Len(bp_written) : ~bp_written[i].torn

\* C9: after a Connect call has returned ErrConnectionTimeout, the
\* peripheral is not connected through the device of that call.
C9_TimeoutLeavesNoConnection ==
  \A k \in Att : result[k] = "ErrConnectionTimeout" => periph # k

\* C10: when Connect has returned ErrInit, the transport connection is
\* cancelled, the session is cleared (l.p, l.cmd and l.mode are nil) and the
\* call has started no transmission loop.
C10_InitFailureCleansUp ==
  \A k \in Att :
    (connectPc = "idle" /\ connectK = k /\ result[k] = "ErrInit") =>
      /\ periph = 0
      /\ l_p = 0 /\ l_cmd = 0 /\ l_mode = 0
      /\ loop[k].pc = "none"

\* C12: a command that was in the write buffer when the transmission loop of
\* a session stopped is not written to the peripheral by the loop of a later
\* session.
C12_LeftoverDiscarded ==
  \A j \in Att : loop[j].pc = "inwrite" => ~loop[j].stale

\* C11: in both clients, with no session, every Move call eventually
\* returns to its caller, for any number of Move calls.
C11_MoveReturns ==
  /\ [](moving # <<>> => <>(moving = <<>>))
  /\ [](bp_moving # <<>> => <>(bp_moving = <<>>))

\* C13: in the Buttplug client, a Disconnect() call made while no monitor
\* waits in its select changes nothing of the client and invokes no callback,
\* and a monitor takes the disconnect case only in the step of a Disconnect()
\* call made while it waits in its select: a dropped request reaches no
\* later monitor.
C13_DroppedDisconnectIsNoOp ==
  [][/\ (BPDisconnect /\ \A s \in Sess : mon[s].pc # "blocked")
          => UNCHANGED <<bpStruct, bpLib, bpConnectVars, mon, bp_loop, panicked,
                         bpMoveVars, bp_written, bpCallbackVars>>
     /\ \A s \in Sess :
          (mon[s].pc # "took_disconnect" /\ mon'[s].pc = "took_disconnect")
            => mon[s].pc = "blocked" /\ BPDisconnect]_vars

\* A Disconnect() call was dropped while the monitor of session 1 had not
\* reached its select; the monitor then waits in its select and the session
\* is up, with no callback made.
C13_Witness ==
  /\ triggered[1] /\ mon[1].pc = "blocked"
  /\ bp_device = 1 /\ ~deviceGone[1]
  /\ bp_client = 1 /\ ~clientClosed[1]
  /\ bp_loop[1].pc = "blocked"
  /\ bp_callbacks[1] = 0

\* C14: in the BLE client, once a Connect call has returned, its
\* discovery-wait goroutine and its writeMode goroutine eventually terminate,
\* and after onDisconnected has run for a session its transmission loop
\* eventually terminates.
C14_NoLeakedGoroutine ==
  \A k \in Att :
    /\ [](result[k] # "none"
           => <>(G[k] \in {"none", "done"} /\ M[k] \in {"none", "done"}))
    /\ [](dev[k] = "stopped"
           => <>(\A j \in Att : loop[j].sess = k => ~Running(j)))

\* C15: in the BLE client, no motion command is written to the peripheral
\* of a connection before the mode write of that connection has completed
\* successfully (which is after the warm-up delay), also when the
\* transmission loop of an earlier session exists.
C15_ModeBeforeCommands ==
  \A j \in Att : loop[j].pc = "inwrite" => ~loop[j].early

\* C16: in the BLE client, every Connect call eventually returns to its
\* caller, also when the transport never responds.
C16_ConnectReturns == [](connectPc # "idle" => <>(connectPc = "idle"))

\* C17: in the Buttplug client, a Disconnect() call can always complete, and
\* a monitor that has taken a disconnect trigger eventually completes its
\* teardown: the stop handshake with the loop, l.device = nil and the
\* callback.
C17_MonitorCompletes ==
  /\ [](Alive => ENABLED BPDisconnect)
  /\ \A s \in Sess :
       [](mon[s].pc \in {"stop", "took_client", "took_disconnect"}
            => <>(mon[s].pc = "done"))

\* C18: in the Buttplug client, at every moment at most one writeFromBuffer
\* goroutine and at most one disconnect monitor are alive, also when Connect
\* is called after the device's Disconnected signal and before the monitor
\* of the previous session has finished its teardown.
C18_OneLoopOneMonitor ==
  Alive =>
    /\ Cardinality({s \in Sess : mon[s].pc \notin {"none", "done"}}) <= 1
    /\ Cardinality({s \in Sess : bp_loop[s].pc \notin {"none", "stopped"}}) <= 1

\* C19: in the BLE client, a stop signal that the disconnect of one
\* connection left in the buffer of stopWriting never ends the loop of
\* another session: a loop whose peripheral is still connected does not
\* return on a buffered stop signal placed by onDisconnected of another
\* device.
C19_StopOfOwnSession ==
  [][\A j \in Att :
       (loop[j].pc = "enter" /\ loop'[j].pc = "stopped")
         => ~(periph = loop[j].sess /\ stopOf # loop[j].sess)]_vars

\* C20: in the BLE client, the discovery notifications of a connection
\* attempt reach the Connect call that waits for them: when the device of
\* the Connect call in progress has discovered both characteristics and
\* both notifications have been received, the discovery-wait goroutine of
\* that call has received them and has signalled setup complete, also when
\* an earlier Connect call has timed out.
C20_DiscoveryReachesCall ==
  \A k \in Att :
    (/\ connectPc = "select" /\ connectK = k
     /\ dev[k] = "up" /\ l_cmd = k /\ l_mode = k
     /\ cmdDiscovered = 0 /\ modeDiscovered = 0)
      => G[k] = "done"

\* C21: in the Buttplug client, a session is torn down only by its own
\* disconnect trigger: while the session of a successful Connect is
\* connected and no disconnect trigger has occurred in it (its device's or
\* client's Disconnected signal, or a Disconnect() call), l.device is the
\* device that Connect selected; the monitor of an earlier session does
\* not clear it.
C21_OwnTriggerOnly ==
  \A s \in Sess :
    (BPConnected(s) /\ ~triggered[s]) => bp_device = sessDevice[s]

====
